---- MODULE Spec2Model ----
(***************************************************************************)
(* A model of the llm-council research pipeline:                           *)
(*   ResearchService.execute_research  (backend/services/research.py)      *)
(*   CouncilOrchestrator.research_all  (src/council/orchestrator.py)       *)
(*   ResponseAggregator.aggregate      (src/council/aggregator.py)         *)
(*   MasterSynthesizer.synthesize      (src/council/master_synthesizer.py) *)
(*                                                                         *)
(* Text is a sequence of fragments (a tuple of TLA+ strings): a label is   *)
(* the one-fragment text <<"high">>, an f-string is the concatenation of   *)
(* its pieces, and an answer is a tuple of one-character fragments so that *)
(* Len gives its character length.  A Python dict is a sequence of         *)
(* [k, v] entries in insertion order.  An Optional[int] is <<>> or <<n>>.  *)
(***************************************************************************)
EXTENDS Integers, Sequences, FiniteSets, TLC

VARIABLES
    entry,        \* "service": POST /research -> execute_research; "sdk": a direct caller
    openai_key,   \* OPENAI_API_KEY is set in the environment
    want_master,  \* the use_master_synthesizer argument of ResponseAggregator
    agents,       \* CouncilOrchestrator.agents: the list of agents
    pc,           \* position of the research session
    task,         \* task[i]: state of the coroutine of agents[i]
    results,      \* results[i]: what asyncio.gather holds for agents[i]
    calls,        \* calls[i]: number of research_async invocations on agents[i]
    responses,    \* the OutcomeMap (dict model_name -> ResearchResponse | None)
    use_master,   \* ResponseAggregator.use_master
    master_calls, \* number of chat.completions.create calls made by the synthesizer
    comparison,   \* the ComparisonResult returned by aggregate, or NoComparison
    raised,       \* the exception that reached the caller, or "none"
    http_status,  \* status of the HTTP response of POST /research (0: none yet)
    synthesis_response, \* synthesize: what chat.completions.create returned, or None
    synthesis_parsed,   \* synthesize: what _parse_synthesis returned or raised, or None
    db_session,   \* the research_sessions row written by POST /research, or NoSession
    clock,        \* the time of the server host, in ticks of the file system's timestamps
    directory,    \* outputs/council_comparisons/{domain}: dict file name -> file
    research_sessions, \* the research_sessions table: the rows in order of insertion
    request       \* request[r]: position and query of the r-th POST /research

vars == <<entry, openai_key, want_master, agents, pc, task, results, calls,
          responses, use_master, master_calls, comparison, raised, http_status,
          synthesis_response, synthesis_parsed, db_session,
          clock, directory, research_sessions, request>>

\* the state shared by the requests of one server
storeVars == <<clock, directory, research_sessions, request>>

\* the state of one research session
councilVars == <<entry, openai_key, want_master, agents, pc, task, results, calls,
                 responses, use_master, master_calls, comparison, raised,
                 http_status, synthesis_response, synthesis_parsed, db_session>>

-----------------------------------------------------------------------------
(* Bounds of the model *)

MaxAgents == 3

MaxOutcomes == 3

\* POST /research requests in flight on one server
MaxRequests == 2

\* the last tick of the clock
MaxClock == 3

\* ticks of the file system's timestamps within one second
TicksPerSecond == 2

-----------------------------------------------------------------------------
(* Text and dict helpers *)

Text(s) == <<s>>

RECURSIVE Rep(_, _)
Rep(c, n) == IF n = 0 THEN <<>> ELSE <<c>> \o Rep(c, n - 1)

\* sep.join(parts)
RECURSIVE Join(_, _)
Join(sep, parts) ==
    IF Len(parts) = 0 THEN <<>>
    ELSE IF Len(parts) = 1 THEN parts[1]
    ELSE parts[1] \o sep \o Join(sep, Tail(parts))

\* seq[:n]
Take(seq, n) == SubSeq(seq, 1, IF Len(seq) < n THEN Len(seq) ELSE n)

Range(seq) == {seq[i] : i \in 1..Len(seq)}

SeqMin(seq) == CHOOSE x \in Range(seq) : \A y \in Range(seq) : x <= y
SeqMax(seq) == CHOOSE x \in Range(seq) : \A y \in Range(seq) : x >= y

DictKeys(d) == [i \in 1..Len(d) |-> d[i].k]
DictValues(d) == [i \in 1..Len(d) |-> d[i].v]
DictHas(d, key) == \E i \in 1..Len(d) : d[i].k = key
DictGet(d, key) == d[CHOOSE i \in 1..Len(d) : d[i].k = key].v

\* faulty variant of DictSet: an existing key keeps its first value
DictSetKeepsFirst(d, key, val) ==
    IF DictHas(d, key)
    THEN d
    ELSE Append(d, [k |-> key, v |-> val])

\* d[key] = val on a Python dict: an existing key keeps its position and takes
\* the new value, a new key is added at the end
DictSet(d, key, val) ==
    IF DictHas(d, key)
    THEN [i \in 1..Len(d) |-> IF d[i].k = key THEN [k |-> key, v |-> val] ELSE d[i]]
    ELSE Append(d, [k |-> key, v |-> val])

\* all injective sequences over S of length at most n
RECURSIVE InjSeqs(_, _)
InjSeqs(S, n) ==
    IF n = 0 THEN {<<>>}
    ELSE LET shorter == InjSeqs(S, n - 1)
         IN  shorter \cup UNION {{Append(s, x) : x \in S \ Range(s)} : s \in shorter}

\* all sequences over S of length at most n
RECURSIVE SeqsUpTo(_, _)
SeqsUpTo(S, n) ==
    IF n = 0 THEN {<<>>}
    ELSE LET shorter == SeqsUpTo(S, n - 1)
         IN  shorter \cup {Append(s, x) : s \in shorter, x \in S}

-----------------------------------------------------------------------------
(* src/models/schemas.py *)

ConfidenceLevel == {"low", "medium", "high", "very_high"}

None == [tag |-> "None"]

ResearchResponse(model_name, answer, confidence, key_points, tokens_used) ==
    [tag |-> "ResearchResponse", model_name |-> model_name, answer |-> answer,
     confidence |-> confidence, key_points |-> key_points,
     tokens_used |-> tokens_used]

\* The pydantic model keeps the declared fields only (extra keyword arguments
\* are ignored by the default model configuration).
ComparisonResult(resp, total_agents, successful_agents, failed_agents, consensus_points, disagreement_points, confidence_range, synthesized_answer, total_tokens, total_cost) ==
    [tag |-> "ComparisonResult", responses |-> resp,
     total_agents |-> total_agents, successful_agents |-> successful_agents,
     failed_agents |-> failed_agents, consensus_points |-> consensus_points,
     disagreement_points |-> disagreement_points,
     confidence_range |-> confidence_range,
     synthesized_answer |-> synthesized_answer,
     total_tokens |-> total_tokens, total_cost |-> total_cost]

NoComparison == [tag |-> "NoComparison"]

\* backend/database/crud.py: the row create_research_session adds and commits
create_research_session(successful_agents, total_agents, failed_agents, total_tokens, total_cost) ==
    [tag |-> "ResearchSession",
     successful_agents |-> successful_agents, total_agents |-> total_agents,
     failed_agents |-> failed_agents,
     total_tokens |-> total_tokens, total_cost |-> total_cost]

NoSession == [tag |-> "NoSession"]

\* no request has reached the server: empty directory, empty table
StoreIdle ==
    /\ clock = 0
    /\ directory = <<>>
    /\ research_sessions = <<>>
    /\ request = <<>>

-----------------------------------------------------------------------------
(* src/council/aggregator.py: the rule-based strategy *)

\* faulty variant of PRICING: a model the table does not know is charged the
\* price of gpt-4o
PRICING_unknown_model_charged(model_name) ==
    CASE model_name = "gpt-4o" -> 15
      [] model_name = "gemini-2.5-flash" -> 0
      [] model_name = "deepseek-r1:14b" -> 0
      [] OTHER -> 15

\* ResponseAggregator.PRICING.get(model_name, 0.0), in hundredths of a dollar
\* per million tokens; a cost is kept in units of 10^-8 dollar.
PRICING(model_name) ==
    CASE model_name = "gpt-4o" -> 15
      [] model_name = "gemini-2.5-flash" -> 0
      [] model_name = "deepseek-r1:14b" -> 0
      [] OTHER -> 0

\* {model: resp for model, resp in responses.items() if resp is not None}
SuccessfulResponses(d) == SelectSeq(d, LAMBDA e : e.v # None)

\* faulty variant of FailedModels: every model is listed as failed
AllModels(d) == DictKeys(d)

\* [model for model, resp in responses.items() if resp is None]
FailedModels(d) == DictKeys(SelectSeq(d, LAMBDA e : e.v = None))

\* all_key_points: the key_points of every response, in dict order
RECURSIVE AllKeyPoints(_)
AllKeyPoints(d) ==
    IF Len(d) = 0 THEN <<>>
    ELSE d[1].v.key_points \o AllKeyPoints(Tail(d))

\* collections.Counter(seq): element -> number of occurrences, first seen first
RECURSIVE CounterFrom(_, _)
CounterFrom(seq, acc) ==
    IF Len(seq) = 0 THEN acc
    ELSE CounterFrom(Tail(seq),
                     DictSet(acc, seq[1],
                             IF DictHas(acc, seq[1]) THEN DictGet(acc, seq[1]) + 1
                             ELSE 1))

Counter(seq) == CounterFrom(seq, <<>>)

ConsensusCap == 5

ConsensusThreshold == 2

\* faulty variant of find_consensus: the list is not cut to 5 points
find_consensus_uncapped(d) ==
    IF Len(d) < 2 THEN <<>>
    ELSE LET point_count == Counter(AllKeyPoints(d))
         IN  DictKeys(SelectSeq(point_count, LAMBDA e : e.v >= 2))

\* _find_consensus: the points that occur at least twice, first seen first
find_consensus(d) ==
    IF Len(d) < 2 THEN <<>>
    ELSE LET point_count == Counter(AllKeyPoints(d))
             consensus == DictKeys(SelectSeq(point_count,
                                             LAMBDA e : e.v >= ConsensusThreshold))
         IN  Take(consensus, ConsensusCap)

\* faulty variant of DepthVaries: the comparison is not strict
DepthVariesNotStrict(max_len, min_len) == 2 * max_len >= 3 * min_len

\* max_len > min_len * 1.5
DepthVaries(max_len, min_len) == 2 * max_len > 3 * min_len

find_disagreements(d) ==
    IF Len(d) < 2 THEN <<>>
    ELSE LET confidences == [i \in 1..Len(d) |-> d[i].v.confidence]
             conf_str == Join(<<", ">>,
                              [i \in 1..Len(d) |->
                                  <<d[i].k, ": ", d[i].v.confidence>>])
             answer_lengths == [i \in 1..Len(d) |-> Len(d[i].v.answer)]
             max_len == SeqMax(answer_lengths)
             min_len == SeqMin(answer_lengths)
             byConfidence ==
                 IF Cardinality(Range(confidences)) > 1
                 THEN << <<"Confidence levels vary (">> \o conf_str \o <<")">> >>
                 ELSE <<>>
             byLength ==
                 IF DepthVaries(max_len, min_len)
                 THEN << <<"Response depth varies significantly (shortest: ",
                           ToString(min_len), " chars, longest: ",
                           ToString(max_len), " chars)">> >>
                 ELSE <<>>
         IN  byConfidence \o byLength

\* faulty variant of conf_map: the key "very_high" is missing, so the
\* lookup falls back to the default 2
conf_map_without_very_high(c) ==
    CASE c = "low" -> 1
      [] c = "medium" -> 2
      [] c = "high" -> 3
      [] OTHER -> 2

conf_map(c) ==
    CASE c = "low" -> 1
      [] c = "medium" -> 2
      [] c = "high" -> 3
      [] c = "very_high" -> 4
      [] OTHER -> 2

reverse_map(n) ==
    CASE n = 1 -> "low"
      [] n = 2 -> "medium"
      [] n = 3 -> "high"
      [] n = 4 -> "very_high"

analyze_confidence(d) ==
    IF Len(d) = 0 THEN <<"unknown">>
    ELSE LET confidences == [i \in 1..Len(d) |-> d[i].v.confidence]
             conf_values == [i \in 1..Len(d) |-> conf_map(confidences[i])]
             min_conf == SeqMin(conf_values)
             max_conf == SeqMax(conf_values)
         IN  IF Cardinality(Range(confidences)) = 1
             THEN <<confidences[1]>>
             ELSE <<reverse_map(min_conf), " to ", reverse_map(max_conf)>>

NoSuccessMessage == <<"No successful responses to synthesize">>

\* faulty variant of SynthesisPoints: every consensus point is shown
SynthesisPointsFive == ConsensusCap

\* consensus_points[:3]
SynthesisPoints == 3

\* faulty variant of synthesize_answer: no pass-through of a single answer
synthesize_answer_no_passthrough(d, consensus_points) ==
    IF Len(d) = 0 THEN <<"No successful responses to synthesize">>
    ELSE LET shown == Take(consensus_points, 3)
             header ==
                 IF Len(consensus_points) > 0
                 THEN << <<"Key consensus points:">> >>
                      \o [i \in 1..Len(shown) |-> <<ToString(i), ". ">> \o shown[i]]
                 ELSE <<>>
             note == <<"\nBased on ", ToString(Len(d)), " AI models (">>
                     \o Join(<<", ">>, [i \in 1..Len(d) |-> <<d[i].k>>])
                     \o <<"), this represents a synthesized view of their findings.">>
         IN  Join(<<" ">>, header \o <<note>>)

synthesize_answer(d, consensus_points) ==
    IF Len(d) = 0 THEN NoSuccessMessage
    ELSE IF Len(d) = 1 THEN d[1].v.answer
    ELSE LET shown == Take(consensus_points, SynthesisPoints)
             header ==
                 IF Len(consensus_points) > 0
                 THEN << <<"Key consensus points:">> >>
                      \o [i \in 1..Len(shown) |-> <<ToString(i), ". ">> \o shown[i]]
                 ELSE <<>>
             note == <<"\nBased on ", ToString(Len(d)), " AI models (">>
                     \o Join(<<", ">>, [i \in 1..Len(d) |-> <<d[i].k>>])
                     \o <<"), this represents a synthesized view of their findings.">>
         IN  Join(<<" ">>, header \o <<note>>)

\* the tokens a response counts for: "if response.tokens_used:" skips None and 0
TokensOf(resp) == IF Len(resp.tokens_used) = 0 THEN 0 ELSE resp.tokens_used[1]

RECURSIVE calculate_total_tokens(_)
calculate_total_tokens(d) ==
    IF Len(d) = 0 THEN 0
    ELSE TokensOf(d[1].v) + calculate_total_tokens(Tail(d))

RECURSIVE calculate_total_cost(_)
calculate_total_cost(d) ==
    IF Len(d) = 0 THEN 0
    ELSE TokensOf(d[1].v) * PRICING(d[1].k) + calculate_total_cost(Tail(d))

aggregate_rule_based(d) ==
    LET successful_responses == SuccessfulResponses(d)
        failed_models == FailedModels(d)
        consensus_points == find_consensus(successful_responses)
    IN  ComparisonResult(successful_responses, Len(d), Len(successful_responses),
                         failed_models, consensus_points,
                         find_disagreements(successful_responses),
                         analyze_confidence(successful_responses),
                         synthesize_answer(successful_responses, consensus_points),
                         calculate_total_tokens(successful_responses),
                         calculate_total_cost(successful_responses))

-----------------------------------------------------------------------------
(* src/council/master_synthesizer.py: the master-synthesizer strategy *)

\* A JSON value is [t |-> "object", val |-> dict], [t |-> "list", val |-> seq],
\* [t |-> "str", val |-> text] or [t |-> "num", val |-> n].
JList(seq) == [t |-> "list", val |-> seq]
JStr(text) == [t |-> "str", val |-> text]
JNum(n) == [t |-> "num", val |-> n]
JObject(d) == [t |-> "object", val |-> d]

\* what json.loads raises JSONDecodeError on
InvalidJson == [t |-> "invalid", val |-> <<>>]

\* required_fields of _validate_parsed_output, in its order
required_fields ==
    << [k |-> "consensus_points", v |-> JList(<<>>)],
       [k |-> "disagreement_points", v |-> JList(<<>>)],
       [k |-> "knowledge_gaps", v |-> JList(<<>>)],
       [k |-> "synthesized_answer", v |-> JStr(<<>>)],
       [k |-> "confidence_range", v |-> JStr(<<"medium">>)],
       [k |-> "confidence_reasoning", v |-> JStr(<<>>)],
       [k |-> "verification_needed", v |-> JList(<<>>)],
       [k |-> "reasoning_trace", v |-> JStr(<<>>)] >>

\* for field, default in required_fields.items():
\*     if field not in parsed: parsed[field] = default
RECURSIVE FillDefaults(_, _)
FillDefaults(parsed, fields) ==
    IF Len(fields) = 0 THEN parsed
    ELSE FillDefaults(IF DictHas(parsed, fields[1].k) THEN parsed
                      ELSE DictSet(parsed, fields[1].k, fields[1].v),
                      Tail(fields))

Returned(value) == [ok |-> TRUE, value |-> value, exc |-> "none"]
Raised(exc) == [ok |-> FALSE, value |-> <<>>, exc |-> exc]

\* faulty variant of validate_parsed_output: every required field is set to
\* its default, present or not
validate_parsed_output_overwrites(json) ==
    IF json.t = "object"
    THEN Returned(FillDefaults(SelectSeq(json.val,
                                         LAMBDA e : \A i \in 1..Len(required_fields) :
                                                        required_fields[i].k # e.k),
                               required_fields))
    ELSE Raised("TypeError")

\* A JSON value that is not an object has no item assignment by field name
\* (and a number or null has no "in"): TypeError.
validate_parsed_output(json) ==
    IF json.t = "object" THEN Returned(FillDefaults(json.val, required_fields))
    ELSE Raised("TypeError")

AnswerChars == 1000

TraceChars == 500

\* faulty variant of parse_natural_language: the raw text is not cut
parse_natural_language_uncut(raw) ==
    << [k |-> "consensus_points", v |-> JList(<<>>)],
       [k |-> "disagreement_points", v |-> JList(<<>>)],
       [k |-> "knowledge_gaps", v |-> JList(<<>>)],
       [k |-> "synthesized_answer", v |-> JStr(raw)],
       [k |-> "confidence_range", v |-> JStr(<<"medium">>)],
       [k |-> "confidence_reasoning", v |-> JStr(<<"Based on natural language synthesis">>)],
       [k |-> "verification_needed", v |-> JList(<<>>)],
       [k |-> "reasoning_trace", v |-> JStr(raw)] >>

parse_natural_language(raw) ==
    << [k |-> "consensus_points", v |-> JList(<<>>)],
       [k |-> "disagreement_points", v |-> JList(<<>>)],
       [k |-> "knowledge_gaps", v |-> JList(<<>>)],
       [k |-> "synthesized_answer", v |-> JStr(Take(raw, AnswerChars))],
       [k |-> "confidence_range", v |-> JStr(<<"medium">>)],
       [k |-> "confidence_reasoning", v |-> JStr(<<"Based on natural language synthesis">>)],
       [k |-> "verification_needed", v |-> JList(<<>>)],
       [k |-> "reasoning_trace", v |-> JStr(Take(raw, TraceChars))] >>

\* A synthesis text is [fenced, json, raw]: fenced says that the pattern
\* ```json\s*\n(.*?)\n``` matches; json is what json.loads makes of the
\* matched group (fenced) or of the whole text (not fenced); raw is the text.
\* A text the pattern matches is not itself JSON: a JSON document holds a
\* backquote only inside a string, and a string holds no line break.
SynthesisText(fenced, json, raw) == [fenced |-> fenced, json |-> json, raw |-> raw]

parse_synthesis(text) ==
    IF text.fenced /\ text.json.t # InvalidJson.t
    THEN validate_parsed_output(text.json)
    ELSE IF ~text.fenced /\ text.json.t # InvalidJson.t
    THEN validate_parsed_output(text.json)
    ELSE Returned(parse_natural_language(text.raw))

\* MasterSynthesizer.PRICING["gpt-4o"], in hundredths of a dollar per million tokens
MasterInputPrice == 250

MasterOutputPrice == 1000

\* usage is <<>> (no usage on the response) or <<[prompt_tokens, completion_tokens, total_tokens]>>
master_total_tokens(d, usage) ==
    calculate_total_tokens(d) + (IF Len(usage) = 0 THEN 0 ELSE usage[1].total_tokens)

\* faulty variant of master_total_cost: the input and output prices are
\* taken in the wrong order
master_total_cost_prices_swapped(d, usage) ==
    calculate_total_cost(d)
    + (IF Len(usage) = 0 THEN 0
       ELSE usage[1].prompt_tokens * 1000
            + usage[1].completion_tokens * 250)

\* worker cost from ResponseAggregator()._calculate_total_cost plus the cost
\* of the reasoning call
master_total_cost(d, usage) ==
    calculate_total_cost(d)
    + (IF Len(usage) = 0 THEN 0
       ELSE usage[1].prompt_tokens * MasterInputPrice
            + usage[1].completion_tokens * MasterOutputPrice)

\* pydantic validation of the keyword arguments of ComparisonResult
IsStrList(json) == json.t = "list" /\ \A i \in 1..Len(json.val) : json.val[i].t = "str"
StrListOf(json) == [i \in 1..Len(json.val) |-> json.val[i].val]

\* MasterSynthesizer.synthesize(query, responses, domain) once the reasoning
\* model has answered with reply = [text, usage]
synthesize(d, reply) ==
    LET successful_responses == SuccessfulResponses(d)
        failed_models == FailedModels(d)
        parsed == parse_synthesis(reply.text)
        p == parsed.value
    IN  IF ~parsed.ok THEN Raised(parsed.exc)
        ELSE IF \E f \in {"consensus_points", "disagreement_points", "knowledge_gaps"} :
                    DictGet(p, f).t \notin {"list", "str"}
        THEN Raised("TypeError")
        ELSE IF ~IsStrList(DictGet(p, "consensus_points"))
                \/ ~IsStrList(DictGet(p, "disagreement_points"))
                \/ DictGet(p, "confidence_range").t # "str"
                \/ DictGet(p, "synthesized_answer").t # "str"
        THEN Raised("ValidationError")
        ELSE Returned(ComparisonResult(
                 successful_responses, Len(d), Len(successful_responses),
                 failed_models,
                 StrListOf(DictGet(p, "consensus_points")),
                 StrListOf(DictGet(p, "disagreement_points")),
                 DictGet(p, "confidence_range").val,
                 DictGet(p, "synthesized_answer").val,
                 master_total_tokens(successful_responses, reply.usage),
                 master_total_cost(successful_responses, reply.usage)))

AllFailedMessage == <<"All agents failed to respond.">>

\* faulty variant of master_failed_result: failed_agents taken from the
\* (empty) dict of successful responses
master_failed_result_no_names(d) ==
    ComparisonResult(<<>>, Len(d), 0, DictKeys(SuccessfulResponses(d)), <<>>, <<>>,
                     <<"low">>, <<"All agents failed to respond.">>, 0, 0)

\* the all-failed result of ResponseAggregator._aggregate_with_master
master_failed_result(d) ==
    ComparisonResult(<<>>, Len(d), 0, DictKeys(d), <<>>, <<>>, <<"low">>,
                     AllFailedMessage, 0, 0)

-----------------------------------------------------------------------------
(* The inputs of the model *)

\* the three models of the price table and one it does not know
Names == {"gpt-4o", "gemini-2.5-flash", "deepseek-r1:14b", "custom-model"}

Agent(model_name) == [model_name |-> model_name]

\* key points an agent may report
P1 == <<"Improves cardiovascular health">>
P2 == <<"Boosts mood">>

\* answers of 10, 15 and 16 characters (ResearchResponse.answer has min_length 10)
ShortAnswer == Rep("a", 10)
MidAnswer == Rep("b", 15)
LongAnswer == Rep("c", 16)

\* what research_async of the agent named model_name may return
AgentReplies(model_name) ==
    { ResearchResponse(model_name, ShortAnswer, "high", <<P1>>, <<500>>),
      ResearchResponse(model_name, LongAnswer, "medium", <<P1, P2>>, <<>>) }

Exception(model_name) == [tag |-> "Exception", model_name |-> model_name]

Pending == [tag |-> "Pending"]

FullJson ==
    JObject(<< [k |-> "consensus_points", v |-> JList(<<JStr(P1)>>)],
               [k |-> "disagreement_points", v |-> JList(<<JStr(P2)>>)],
               [k |-> "knowledge_gaps", v |-> JList(<<JStr(<<"gap">>)>>)],
               [k |-> "synthesized_answer", v |-> JStr(<<"synthesis">>)],
               [k |-> "confidence_range", v |-> JStr(<<"high">>)],
               [k |-> "confidence_reasoning", v |-> JStr(<<"because">>)],
               [k |-> "verification_needed", v |-> JList(<<JStr(<<"claim">>)>>)],
               [k |-> "reasoning_trace", v |-> JStr(<<"trace">>)] >>)

PartialJson ==
    JObject(<< [k |-> "synthesized_answer", v |-> JStr(<<"synthesis">>)] >>)

Prose == Rep("x", 3)

Usage(prompt_tokens, completion_tokens) ==
    [prompt_tokens |-> prompt_tokens, completion_tokens |-> completion_tokens,
     total_tokens |-> prompt_tokens + completion_tokens]

\* what the reasoning model may answer
MasterReplies ==
    { [text |-> SynthesisText(TRUE, FullJson, Prose), usage |-> <<Usage(1000, 500)>>],
      [text |-> SynthesisText(FALSE, PartialJson, Prose), usage |-> <<>>],
      [text |-> SynthesisText(TRUE, InvalidJson, Prose), usage |-> <<Usage(1000, 500)>>],
      [text |-> SynthesisText(FALSE, InvalidJson, Prose), usage |-> <<>>],
      [text |-> SynthesisText(FALSE, JList(<<>>), Prose), usage |-> <<>>] }

-----------------------------------------------------------------------------
(* backend/services/research.py and src/council/orchestrator.py *)

\* faulty variant of NoAgents: the emptiness test is missing
NeverNoAgents(ags) == FALSE

\* "if not agents"
NoAgents(ags) == Len(ags) = 0

\* ResearchService._create_agents: every constructor sits in its own try block.
\* GeminiResearchAgent does not define research_async, so the abstract base
\* class refuses to instantiate it and the agent is always skipped; the
\* un-awaited check_ollama_status() coroutine is truthy, so the DeepSeek
\* agent is kept whenever its constructor succeeds.
create_agents(openai_ok, deepseek_ok) ==
    (IF openai_key /\ openai_ok THEN <<Agent("gpt-4o")>> ELSE <<>>)
    \o (IF deepseek_ok THEN <<Agent("deepseek-r1:14b")>> ELSE <<>>)

Init ==
    /\ entry \in {"service", "sdk"}
    /\ openai_key \in BOOLEAN
    /\ want_master \in (IF entry = "service" THEN {TRUE} ELSE BOOLEAN)
    /\ agents \in (IF entry = "service" THEN {<<>>}
                   ELSE SeqsUpTo({Agent(n) : n \in Names}, MaxAgents))
    /\ pc = "start"
    /\ task = <<>>
    /\ results = <<>>
    /\ calls = <<>>
    /\ responses = <<>>
    /\ use_master = FALSE
    /\ master_calls = 0
    /\ comparison = NoComparison
    /\ raised = "none"
    /\ http_status = 0
    /\ synthesis_response = None
    /\ synthesis_parsed = None
    /\ db_session = NoSession
    /\ StoreIdle

\* ResearchService.execute_research up to the construction of the council;
\* the route turns a ValueError into HTTP 400
ExecuteResearch ==
    /\ pc = "start"
    /\ entry = "service"
    /\ \E openai_ok \in BOOLEAN, deepseek_ok \in BOOLEAN :
          LET created == create_agents(openai_ok, deepseek_ok)
          IN  /\ agents' = created
              /\ IF NoAgents(created)
                 THEN /\ pc' = "failed"
                      /\ raised' = "ValueError"
                      /\ http_status' = 400
                 ELSE /\ pc' = "constructed"
                      /\ UNCHANGED <<raised, http_status>>
    /\ UNCHANGED <<storeVars, db_session, synthesis_response, synthesis_parsed,
                   entry, openai_key, want_master, task, results, calls,
                   responses, use_master, master_calls, comparison>>

\* CouncilOrchestrator.__init__ called by a direct caller
CouncilInit ==
    /\ pc = "start"
    /\ entry = "sdk"
    /\ IF NoAgents(agents)
       THEN /\ pc' = "failed"
            /\ raised' = "ValueError"
       ELSE /\ pc' = "constructed"
            /\ UNCHANGED raised
    /\ UNCHANGED <<storeVars, db_session, synthesis_response, synthesis_parsed,
                   entry, openai_key, want_master, agents, task, results, calls,
                   responses, use_master, master_calls, comparison, http_status>>

\* research_all up to "await asyncio.gather(*tasks, return_exceptions=True)":
\* one coroutine per agent, each started once and suspended in its remote call
ResearchAllStart ==
    /\ pc = "constructed"
    /\ task' = [i \in 1..Len(agents) |-> "running"]
    /\ results' = [i \in 1..Len(agents) |-> Pending]
    /\ calls' = [i \in 1..Len(agents) |-> 1]
    /\ pc' = "gathering"
    /\ UNCHANGED <<storeVars, db_session, synthesis_response, synthesis_parsed,
                   entry, openai_key, want_master, agents, responses, use_master,
                   master_calls, comparison, raised, http_status>>

\* faulty variant of AgentReturn: the result is stored in the first free
\* slot, so that results follow the order of completion
AgentReturnInCompletionOrder(i) ==
    /\ pc = "gathering"
    /\ task[i] = "running"
    /\ \E reply \in AgentReplies(agents[i].model_name) :
          LET free == {j \in 1..Len(results) : results[j].tag = "Pending"}
              slot == CHOOSE j \in free : \A other \in free : j <= other
          IN  results' = [results EXCEPT ![slot] = reply]
    /\ task' = [task EXCEPT ![i] = "ok"]
    /\ UNCHANGED <<storeVars, db_session, synthesis_response, synthesis_parsed,
                   entry, openai_key, want_master, agents, pc, calls, responses,
                   use_master, master_calls, comparison, raised, http_status>>

\* _research_with_agent: the remote call of agents[i] returns a response;
\* gather keeps it at the position of its awaitable
AgentReturn(i) ==
    /\ pc = "gathering"
    /\ task[i] = "running"
    /\ \E reply \in AgentReplies(agents[i].model_name) :
          results' = [results EXCEPT ![i] = reply]
    /\ task' = [task EXCEPT ![i] = "ok"]
    /\ UNCHANGED <<storeVars, db_session, synthesis_response, synthesis_parsed,
                   entry, openai_key, want_master, agents, pc, calls, responses,
                   use_master, master_calls, comparison, raised, http_status>>

\* faulty variant of AgentRaise: a first failure is retried, research_async
\* is invoked on the agent a second time
AgentRaiseRetriesOnce(i) ==
    /\ pc = "gathering"
    /\ task[i] = "running"
    /\ IF calls[i] < 2
       THEN /\ calls' = [calls EXCEPT ![i] = calls[i] + 1]
            /\ UNCHANGED <<results, task>>
       ELSE /\ results' = [results EXCEPT ![i] = Exception(agents[i].model_name)]
            /\ task' = [task EXCEPT ![i] = "err"]
            /\ UNCHANGED calls
    /\ UNCHANGED <<storeVars, db_session, synthesis_response, synthesis_parsed,
                   entry, openai_key, want_master, agents, pc, responses,
                   use_master, master_calls, comparison, raised, http_status>>

\* _research_with_agent: the remote call of agents[i] raises; the exception is
\* re-raised with the agent's name and kept by gather as a result
AgentRaise(i) ==
    /\ pc = "gathering"
    /\ task[i] = "running"
    /\ results' = [results EXCEPT ![i] = Exception(agents[i].model_name)]
    /\ task' = [task EXCEPT ![i] = "err"]
    /\ UNCHANGED <<storeVars, db_session, synthesis_response, synthesis_parsed,
                   entry, openai_key, want_master, agents, pc, calls, responses,
                   use_master, master_calls, comparison, raised, http_status>>

\* faulty variant of AllSettled: first-wins, the awaiter resumes once any
\* awaitable has finished
AnySettled(t) == \E i \in 1..Len(t) : t[i] \in {"ok", "err"}

\* asyncio.gather resumes its awaiter once every awaitable has finished
AllSettled(t) == \A i \in 1..Len(t) : t[i] \in {"ok", "err"}

\* for agent, result in zip(self.agents, results): responses[model_name] = ...
RECURSIVE ProcessResults(_, _, _)
ProcessResults(ags, res, acc) ==
    IF Len(ags) = 0 \/ Len(res) = 0 THEN acc
    ELSE ProcessResults(Tail(ags), Tail(res),
                        DictSet(acc, ags[1].model_name,
                                IF res[1].tag = "Exception" THEN None ELSE res[1]))

\* faulty variant of ResearchAllReturn: research_all does not wait for gather
\* and assembles the OutcomeMap from whatever the tasks hold
ResearchAllReturnWithoutJoin ==
    /\ pc = "gathering"
    /\ responses' = ProcessResults(agents, results, <<>>)
    /\ pc' = "returned"
    /\ UNCHANGED <<storeVars, db_session, synthesis_response, synthesis_parsed,
                   entry, openai_key, want_master, agents, task, results, calls,
                   use_master, master_calls, comparison, raised, http_status>>

\* research_all from the return of gather to "return responses"
ResearchAllReturn ==
    /\ pc = "gathering"
    /\ AllSettled(task)
    /\ responses' = ProcessResults(agents, results, <<>>)
    /\ pc' = "returned"
    /\ UNCHANGED <<storeVars, db_session, synthesis_response, synthesis_parsed,
                   entry, openai_key, want_master, agents, task, results, calls,
                   use_master, master_calls, comparison, raised, http_status>>

-----------------------------------------------------------------------------
(* src/council/aggregator.py: ResponseAggregator *)

\* ResponseAggregator.__init__: a MasterSynthesizer that cannot be built
\* (no API key) turns use_master off
AggregatorInit ==
    /\ pc = "returned"
    /\ use_master' = (want_master /\ openai_key)
    /\ pc' = "aggregating"
    /\ UNCHANGED <<storeVars, db_session, synthesis_response, synthesis_parsed,
                   entry, openai_key, want_master, agents, task, results, calls,
                   responses, master_calls, comparison, raised, http_status>>

\* routes/research.py: the arguments the route passes to
\* create_research_session once execute_research has returned
save_metadata(result) ==
    LET failed_agents == result.failed_agents
    IN  create_research_session(Len(result.responses) - Len(failed_agents),
                                Len(result.responses),
                                failed_agents,
                                result.total_tokens,
                                result.total_cost)

\* aggregate returns its ComparisonResult; behind the service the route
\* writes the session row and answers 200
Finish(result) ==
    /\ comparison' = result
    /\ pc' = "done"
    /\ http_status' = (IF entry = "service" THEN 200 ELSE http_status)
    /\ db_session' = (IF entry = "service" THEN save_metadata(result) ELSE db_session)
    /\ UNCHANGED raised

\* faulty variant of Fail: the error is swallowed and the rule-based result
\* is returned instead
FailFallsBack(exc) ==
    /\ comparison' = aggregate_rule_based(responses)
    /\ pc' = "done"
    /\ http_status' = (IF entry = "service" THEN 200 ELSE http_status)
    /\ db_session' = (IF entry = "service"
                      THEN save_metadata(aggregate_rule_based(responses))
                      ELSE db_session)
    /\ UNCHANGED raised

\* an exception leaves synthesize and aggregate ("except Exception: raise");
\* the route answers 400 to a ValueError and 500 to any other exception
Fail(exc) ==
    /\ raised' = exc
    /\ pc' = "failed"
    /\ http_status' = (IF entry # "service" THEN http_status
                       ELSE IF exc \in {"ValueError", "ValidationError"} THEN 400
                       ELSE 500)
    /\ UNCHANGED <<comparison, db_session>>

\* aggregate -> _aggregate_rule_based
AggregateRuleBased ==
    /\ pc = "aggregating"
    /\ ~use_master
    /\ Finish(aggregate_rule_based(responses))
    /\ UNCHANGED <<storeVars, synthesis_response, synthesis_parsed,
                   entry, openai_key, want_master, agents, task, results, calls,
                   responses, use_master, master_calls>>

\* faulty variant of AggregateWithMaster: no short-circuit when every agent
\* failed, the reasoning model is called on the empty dict
AggregateWithMasterAlwaysCalls ==
    /\ pc = "aggregating"
    /\ use_master
    /\ pc' = "synthesizing"
    /\ master_calls' = master_calls + 1
    /\ UNCHANGED <<comparison, raised, http_status>>
    /\ UNCHANGED <<storeVars, db_session, synthesis_response, synthesis_parsed,
                   entry, openai_key, want_master, agents, task, results, calls,
                   responses, use_master>>

\* aggregate -> _aggregate_with_master, up to the await of the reasoning call
AggregateWithMaster ==
    /\ pc = "aggregating"
    /\ use_master
    /\ IF Len(SuccessfulResponses(responses)) = 0
       THEN /\ Finish(master_failed_result(responses))
            /\ UNCHANGED master_calls
       ELSE /\ pc' = "synthesizing"
            /\ master_calls' = master_calls + 1
            /\ UNCHANGED <<comparison, raised, http_status, db_session>>
    /\ UNCHANGED <<storeVars, synthesis_response, synthesis_parsed,
                   entry, openai_key, want_master, agents, task, results, calls,
                   responses, use_master>>

\* the reasoning call returns: parse, account, build the ComparisonResult
MasterReturn ==
    /\ pc = "synthesizing"
    /\ \E reply \in MasterReplies :
          LET out == synthesize(SuccessfulResponses(responses), reply)
          IN  /\ synthesis_response' = reply
              /\ synthesis_parsed' = parse_synthesis(reply.text)
              /\ IF out.ok THEN Finish(out.value) ELSE Fail(out.exc)
    /\ UNCHANGED <<storeVars, entry, openai_key, want_master, agents, task,
                   results, calls, responses, use_master, master_calls>>

\* the reasoning call raises: synthesize re-raises
MasterFail ==
    /\ pc = "synthesizing"
    /\ Fail("Exception")
    /\ UNCHANGED <<storeVars, synthesis_response, synthesis_parsed,
                   entry, openai_key, want_master, agents, task, results, calls,
                   responses, use_master, master_calls>>

Next ==
    \/ ExecuteResearch
    \/ CouncilInit
    \/ ResearchAllStart
    \/ \E i \in 1..Len(agents) : AgentReturn(i)
    \/ \E i \in 1..Len(agents) : AgentRaise(i)
    \/ ResearchAllReturn
    \/ AggregatorInit
    \/ AggregateRuleBased
    \/ AggregateWithMaster
    \/ MasterReturn
    \/ MasterFail

Spec == Init /\ [][Next]_vars

\* faulty variant of SpecLive: the coroutine of research_all is not resumed
\* once gather is complete
SpecLiveWithoutResume ==
    /\ Init /\ [][Next]_vars
    /\ WF_vars(ExecuteResearch)
    /\ WF_vars(CouncilInit)
    /\ WF_vars(ResearchAllStart)

\* The event loop runs every coroutine that is ready: the construction, the
\* start of the tasks and the resumption of research_all after gather are
\* taken when enabled.  Nothing makes a remote call end: there is no
\* fairness on AgentReturn and AgentRaise, and research_all sets no timeout.
SpecLive ==
    /\ Init /\ [][Next]_vars
    /\ WF_vars(ExecuteResearch)
    /\ WF_vars(CouncilInit)
    /\ WF_vars(ResearchAllStart)
    /\ WF_vars(ResearchAllReturn)

-----------------------------------------------------------------------------
(* aggregate as a function of the OutcomeMap: the OutcomeMap is drawn from  *)
(* bounded sets and the aggregator runs on it.                             *)

\* responses that differ in confidence only
ConfidenceReplies(model_name) ==
    { ResearchResponse(model_name, ShortAnswer, c, <<P1>>, <<500>>) :
          c \in ConfidenceLevel }

\* responses that differ in answer length and confidence
LengthReplies(model_name) ==
    { ResearchResponse(model_name, a, c, <<>>, <<>>) :
          a \in {ShortAnswer, MidAnswer, LongAnswer}, c \in {"low", "high"} }

\* responses that differ in key points only
KeyPointReplies(model_name) ==
    { ResearchResponse(model_name, ShortAnswer, "high", kp, <<0>>) :
          kp \in {<<>>, <<P1>>, <<P2>>, <<P1, P1>>, <<P1, P2>>, <<P2, P1>>} }

\* responses that differ in tokens_used only: absent, 0, and two counts
TokenReplies(model_name) ==
    { ResearchResponse(model_name, ShortAnswer, "high", <<>>, t) :
          t \in {<<>>, <<0>>, <<1000>>, <<2000000>>} }

\* the reply families an OutcomeMap is drawn from
RepliesOf(family, model_name) ==
    CASE family = "confidence" -> ConfidenceReplies(model_name)
      [] family = "length" -> LengthReplies(model_name)
      [] family = "key_points" -> KeyPointReplies(model_name)
      [] family = "tokens" -> TokenReplies(model_name)

ReplyFamilies == {"confidence", "length", "key_points", "tokens"}

\* the dicts with the given keys whose values are None or replies of the family
RECURSIVE DictsOver(_, _)
DictsOver(keys, family) ==
    IF Len(keys) = 0 THEN {<<>>}
    ELSE { <<[k |-> keys[1], v |-> val]>> \o rest :
              val \in {None} \cup RepliesOf(family, keys[1]),
              rest \in DictsOver(Tail(keys), family) }

InitAggregate ==
    /\ entry = "sdk"
    /\ openai_key = TRUE
    /\ want_master \in BOOLEAN
    /\ agents = <<>>
    /\ pc = "returned"
    /\ task = <<>>
    /\ results = <<>>
    /\ calls = <<>>
    /\ \E keys \in InjSeqs(Names, MaxOutcomes), family \in ReplyFamilies :
          responses \in DictsOver(keys, family)
    /\ use_master = FALSE
    /\ master_calls = 0
    /\ comparison = NoComparison
    /\ raised = "none"
    /\ http_status = 0
    /\ synthesis_response = None
    /\ synthesis_parsed = None
    /\ db_session = NoSession
    /\ StoreIdle

NextAggregate ==
    \/ AggregatorInit
    \/ AggregateRuleBased
    \/ AggregateWithMaster
    \/ MasterReturn
    \/ MasterFail

SpecAggregate == InitAggregate /\ [][NextAggregate]_vars

-----------------------------------------------------------------------------
(* aggregate on OutcomeMaps whose responses carry up to five key points,    *)
(* the most an agent's parser keeps (key_points[:5]).                       *)

\* the n-th key point
Point(n) == <<"Point ", ToString(n)>>

\* key-point lists that share more than five points between them
PointLists ==
    { <<>>,
      <<Point(1), Point(2), Point(3), Point(4), Point(5)>>,
      <<Point(1), Point(2), Point(3), Point(4), Point(6)>>,
      <<Point(6), Point(5)>>,
      <<Point(6), Point(6)>> }

PointReplies(model_name) ==
    { ResearchResponse(model_name, ShortAnswer, "high", kp, <<>>) :
          kp \in PointLists }

\* the model names in one fixed order (the aggregator treats the keys alike
\* apart from the price lookup)
NameOrder == <<"gpt-4o", "gemini-2.5-flash", "deepseek-r1:14b", "custom-model">>

InitConsensus ==
    /\ entry = "sdk"
    /\ openai_key = TRUE
    /\ want_master \in BOOLEAN
    /\ agents = <<>>
    /\ pc = "returned"
    /\ task = <<>>
    /\ results = <<>>
    /\ calls = <<>>
    /\ \E n \in 0..MaxOutcomes :
          responses \in
              [1..n -> UNION {{[k |-> NameOrder[i], v |-> r] :
                                  r \in {None} \cup PointReplies(NameOrder[i])} :
                              i \in 1..n}]
          /\ \A i \in 1..n : responses[i].k = NameOrder[i]
    /\ use_master = FALSE
    /\ master_calls = 0
    /\ comparison = NoComparison
    /\ raised = "none"
    /\ http_status = 0
    /\ synthesis_response = None
    /\ synthesis_parsed = None
    /\ db_session = NoSession
    /\ StoreIdle

SpecConsensus == InitConsensus /\ [][NextAggregate]_vars

-----------------------------------------------------------------------------
(* _parse_synthesis as a function of the synthesis text: the text is drawn  *)
(* from a bounded set and the parser runs on it.                           *)

\* the JSON value null
JNull == [t |-> "null", val |-> <<>>]

\* an object that holds some required fields with values other than the
\* defaults, and a field that is not required
OddJson ==
    JObject(<< [k |-> "notes", v |-> JStr(<<"extra">>)],
               [k |-> "confidence_range", v |-> JStr(<<"high">>)],
               [k |-> "consensus_points", v |-> JList(<<>>)],
               [k |-> "reasoning_trace", v |-> JStr(<<"trace">>)] >>)

\* what json.loads may make of the fenced block or of the whole text
ParseJsons ==
    << FullJson, PartialJson, OddJson, JObject(<<>>), InvalidJson,
       JList(<<>>), JList(<<JStr(P1)>>), JStr(<<"text">>), JNum(5), JNull >>

\* raw texts of 600 and 1001 characters
MidProse == [i \in 1..600 |-> IF i <= 500 THEN "p" ELSE "q"]
LongProse == [i \in 1..1001 |-> IF i <= 500 THEN "p" ELSE IF i <= 1000 THEN "q" ELSE "r"]

ParseRaws == {Prose, MidProse, LongProse}

InitParse ==
    /\ entry = "sdk"
    /\ openai_key = TRUE
    /\ want_master = TRUE
    /\ agents = <<>>
    /\ pc = "parse"
    /\ task = <<>>
    /\ results = <<>>
    /\ calls = <<>>
    /\ responses = <<>>
    /\ use_master = TRUE
    /\ master_calls = 1
    /\ comparison = NoComparison
    /\ raised = "none"
    /\ http_status = 0
    /\ \E fenced \in BOOLEAN, j \in 1..Len(ParseJsons), raw \in ParseRaws :
          synthesis_response =
              [text |-> SynthesisText(fenced, ParseJsons[j], raw), usage |-> <<>>]
    /\ synthesis_parsed = None
    /\ db_session = NoSession
    /\ StoreIdle

\* parsed = self._parse_synthesis(synthesis_text)
ParseSynthesis ==
    /\ pc = "parse"
    /\ synthesis_parsed' = parse_synthesis(synthesis_response.text)
    /\ pc' = "parse_done"
    /\ UNCHANGED <<storeVars, db_session, synthesis_response, entry, openai_key,
                   want_master, agents, task, results, calls, responses,
                   use_master, master_calls, comparison, raised, http_status>>

NextParse == ParseSynthesis

SpecParse == InitParse /\ [][NextParse]_vars

-----------------------------------------------------------------------------
(* POST /research on one server: the requests share the event loop, the     *)
(* domain directory outputs/council_comparisons/{domain} and the            *)
(* research_sessions table.  A request is suspended while its agents and    *)
(* the reasoning model are awaited; from the construction of the            *)
(* ComparisonResult to the commit of the row there is no await.             *)

\* query[:50]
FilenameQueryChars == 50

\* str.lower, on the characters the queries are made of
Lower(c) ==
    CASE c = "A" -> "a"
      [] c = "I" -> "i"
      [] OTHER -> c

\* c.isalnum() or c == '_', on the characters the queries are made of
KeptInFilename(c) == c \in {"a", "b", "i", "A", "I", "_"}

\* timestamp.strftime("%Y-%m-%d_%H-%M-%S"): the second the tick falls in
strftime(timestamp) == timestamp \div TicksPerSecond

\* OutputManager._generate_filename
generate_filename(query, timestamp) ==
    LET cut == Take(query, FilenameQueryChars)
        lowered == [i \in 1..Len(cut) |-> Lower(cut[i])]
        underscored == [i \in 1..Len(lowered) |->
                           IF lowered[i] = " " THEN "_" ELSE lowered[i]]
    IN  [time_str |-> strftime(timestamp),
         query_clean |-> SelectSeq(underscored, KeptInFilename)]

\* OutputManager.save_comparison: open(file_path, 'w') creates the file or
\* replaces its content; the file holds the ComparisonResult of one session
save_comparison(dir, query, timestamp, session_id) ==
    DictSet(dir, generate_filename(query, timestamp),
            [holder |-> session_id, mtime |-> timestamp])

\* sorted(domain_dir.glob("*.json"), key=st_mtime, reverse=True)[0]: a file no
\* other file is newer than; glob yields equal times in directory order
most_recent(dir) ==
    {dir[i].k : i \in {j \in 1..Len(dir) :
                          \A other \in 1..Len(dir) : dir[other].v.mtime <= dir[j].v.mtime}}

\* a query of 51 characters whose first 50 are the same
LongQuery(last) ==
    [i \in 1..(FilenameQueryChars + 1) |-> IF i <= FilenameQueryChars THEN "a" ELSE last]

Queries ==
    { LongQuery("a"), LongQuery("b"),
      <<"A", "I", "?">>, <<"a", "i">>,
      <<"b", " ", "a">> }

InitSessions ==
    /\ entry = "service"
    /\ openai_key = TRUE
    /\ want_master = TRUE
    /\ agents = <<>>
    /\ pc = "start"
    /\ task = <<>>
    /\ results = <<>>
    /\ calls = <<>>
    /\ responses = <<>>
    /\ use_master = FALSE
    /\ master_calls = 0
    /\ comparison = NoComparison
    /\ raised = "none"
    /\ http_status = 0
    /\ synthesis_response = None
    /\ synthesis_parsed = None
    /\ db_session = NoSession
    /\ clock = 0
    /\ directory = <<>>
    /\ research_sessions = <<>>
    /\ request = [r \in 1..MaxRequests |-> [pc |-> "idle", query |-> <<>>]]

\* the route receives a request and awaits execute_research
PostResearch(r) ==
    /\ request[r].pc = "idle"
    /\ \E query \in Queries :
          request' = [request EXCEPT ![r] = [pc |-> "researching", query |-> query]]
    /\ UNCHANGED <<clock, directory, research_sessions, councilVars>>

\* time passes
Tick ==
    /\ clock < MaxClock
    /\ clock' = clock + 1
    /\ UNCHANGED <<directory, research_sessions, request, councilVars>>

\* the awaited calls of request r have ended: the ComparisonResult is built
\* with timestamp = datetime.now(), saved, looked up again in the directory
\* and recorded under a fresh session id
RespondResearch(r) ==
    /\ request[r].pc = "researching"
    /\ LET saved == save_comparison(directory, request[r].query, clock, r)
       IN  /\ directory' = saved
           /\ \E file_path \in most_recent(saved) :
                 research_sessions' =
                     Append(research_sessions, [id |-> r, file_path |-> file_path])
    /\ request' = [request EXCEPT ![r].pc = "answered"]
    /\ UNCHANGED <<clock, councilVars>>

\* execute_research raises: the route answers 400 or 500, nothing is saved
RejectResearch(r) ==
    /\ request[r].pc = "researching"
    /\ request' = [request EXCEPT ![r].pc = "rejected"]
    /\ UNCHANGED <<clock, directory, research_sessions, councilVars>>

NextSessions ==
    \/ \E r \in 1..MaxRequests : PostResearch(r)
    \/ Tick
    \/ \E r \in 1..MaxRequests : RespondResearch(r)
    \/ \E r \in 1..MaxRequests : RejectResearch(r)

SpecSessions == InitSessions /\ [][NextSessions]_vars

-----------------------------------------------------------------------------
(* Properties *)

\* the entries of the OutcomeMap that hold a result, and those that hold None
SuccessKeys == {responses[i].k : i \in {j \in 1..Len(responses) : responses[j].v # None}}
FailureKeys == {responses[i].k : i \in {j \in 1..Len(responses) : responses[j].v = None}}
SuccessEntries == {responses[i] : i \in {j \in 1..Len(responses) : responses[j].v # None}}

HasComparison == comparison.tag = "ComparisonResult"

\* the order low < medium < high < very_high
LevelOrder == <<"low", "medium", "high", "very_high">>
LevelIndex(level) == CHOOSE i \in 1..Len(LevelOrder) : LevelOrder[i] = level
LowestOf(levels) == CHOOSE l \in levels : \A m \in levels : LevelIndex(l) <= LevelIndex(m)
HighestOf(levels) == CHOOSE l \in levels : \A m \in levels : LevelIndex(l) >= LevelIndex(m)

\* C1: when research_all returns, the OutcomeMap has exactly as many keys as
\* the council has agents, however many of them failed.
C1_OutcomeMapHasOneKeyPerAgent ==
    pc = "returned" => Len(responses) = Len(agents)

\* C2: when research_all returns it has not raised, and for every failed
\* agent A and succeeded agent B the OutcomeMap maps B's name to B's result
\* and A's name to None.
C2_FailureIsolation ==
    pc = "returned" =>
        /\ raised = "none"
        /\ \A a \in 1..Len(agents), b \in 1..Len(agents) :
              (task[a] = "err" /\ task[b] = "ok") =>
                  /\ DictHas(responses, agents[b].model_name)
                  /\ DictGet(responses, agents[b].model_name) = results[b]
                  /\ DictHas(responses, agents[a].model_name)
                  /\ DictGet(responses, agents[a].model_name) = None

\* C3: research_all has returned only if the task of every agent has ended,
\* in success or in error.
C3_JoinAllBarrier ==
    pc \in {"returned", "aggregating", "synthesizing", "done"} =>
        /\ Len(task) = Len(agents)
        /\ \A i \in 1..Len(agents) : task[i] = "ok" \/ task[i] = "err"

C3_Witness ==
    /\ pc = "returned"
    /\ Len(agents) >= 2
    /\ \E i \in 1..Len(agents) : task[i] = "ok"
    /\ \E i \in 1..Len(agents) : task[i] = "err"

\* C4: every ComparisonResult that aggregate returns, under either strategy,
\* has successful_agents + len(failed_agents) = total_agents, and the keys of
\* its responses are exactly the names whose OutcomeMap entry is a result.
C4_CountsAddUp ==
    HasComparison =>
        /\ comparison.successful_agents + Len(comparison.failed_agents)
              = comparison.total_agents
        /\ Range(DictKeys(comparison.responses)) = SuccessKeys

C4_Witness ==
    /\ HasComparison
    /\ use_master
    /\ SuccessKeys # {}
    /\ FailureKeys # {}

\* C5: for an OutcomeMap with a success and a failure, under either strategy,
\* total_agents is the number of OutcomeMap keys and failed_agents lists
\* exactly the keys whose entry is None.
C5_TotalIsEveryAgentInvoked ==
    (HasComparison /\ SuccessKeys # {} /\ FailureKeys # {}) =>
        /\ comparison.total_agents = Len(responses)
        /\ comparison.successful_agents = Cardinality(SuccessKeys)
        /\ Range(comparison.failed_agents) = FailureKeys
        /\ Len(comparison.failed_agents) = Cardinality(FailureKeys)

\* C6: for an OutcomeMap without a success, aggregate makes no reasoning call
\* and does not raise; it returns a ComparisonResult with no successful
\* agent, empty responses, consensus and disagreement lists, every key in
\* failed_agents and the failure message of the strategy as the answer.
C6_AllAgentsFailed ==
    (SuccessKeys = {} /\ pc \notin {"returned", "aggregating"}) =>
        /\ pc = "done"
        /\ raised = "none"
        /\ HasComparison
        /\ comparison.successful_agents = 0
        /\ comparison.total_agents = Len(responses)
        /\ comparison.responses = <<>>
        /\ comparison.consensus_points = <<>>
        /\ comparison.disagreement_points = <<>>
        /\ comparison.failed_agents = DictKeys(responses)
        /\ comparison.synthesized_answer =
              (IF use_master THEN <<"All agents failed to respond.">>
               ELSE <<"No successful responses to synthesize">>)

C6_Witness ==
    /\ pc = "done"
    /\ use_master
    /\ SuccessKeys = {}
    /\ Len(responses) >= 2

\* C7: with an empty agent list the session ends in a ValueError (HTTP 400
\* through the route) before any agent task, OutcomeMap or aggregation exists.
C7_EmptyAgentList ==
    (pc # "start" /\ Len(agents) = 0) =>
        /\ pc = "failed"
        /\ raised = "ValueError"
        /\ entry = "service" => http_status = 400
        /\ task = <<>>
        /\ calls = <<>>
        /\ responses = <<>>
        /\ master_calls = 0
        /\ ~HasComparison

C7_Witness ==
    /\ entry = "service"
    /\ pc = "failed"
    /\ Len(agents) = 0
    /\ http_status = 400

\* C8: under the rule-based strategy, an OutcomeMap with exactly one success
\* gives that agent's answer as synthesized_answer.
C8_SingleSuccessPassthrough ==
    (pc = "done" /\ ~use_master /\ Cardinality(SuccessKeys) = 1) =>
        \A e \in SuccessEntries : comparison.synthesized_answer = e.v.answer

C8_Witness ==
    /\ pc = "done"
    /\ ~use_master
    /\ Cardinality(SuccessKeys) = 1
    /\ FailureKeys # {}

\* the number of successful agents whose key-point list holds the point
AgentsMentioning(point) ==
    Cardinality({e \in SuccessEntries : point \in Range(e.v.key_points)})

\* C9: under the rule-based strategy with 3 successes, a key point in the
\* lists of at least 2 agents is a consensus point and a key point in the
\* list of only 1 agent is not.
C9_ConsensusCountsAgents ==
    (pc = "done" /\ ~use_master /\ Cardinality(SuccessKeys) = 3) =>
        \A e \in SuccessEntries : \A point \in Range(e.v.key_points) :
            /\ AgentsMentioning(point) >= 2 =>
                  point \in Range(comparison.consensus_points)
            /\ AgentsMentioning(point) = 1 =>
                  point \notin Range(comparison.consensus_points)

\* C10: under the rule-based strategy with a success, confidence_range is the
\* shared label when every successful agent has the same level, and
\* "<lowest> to <highest>" otherwise.
C10_ConfidenceRange ==
    (pc = "done" /\ ~use_master /\ SuccessKeys # {}) =>
        LET levels == {e.v.confidence : e \in SuccessEntries}
        IN  comparison.confidence_range =
                (IF Cardinality(levels) = 1 THEN <<LowestOf(levels)>>
                 ELSE <<LowestOf(levels), " to ", HighestOf(levels)>>)

C10_Witness ==
    /\ pc = "done"
    /\ ~use_master
    /\ {e.v.confidence : e \in SuccessEntries} = {"high", "medium", "very_high"}
    /\ comparison.confidence_range = <<"medium", " to ", "very_high">>

\* the sum of w[x] over the elements x of S
RECURSIVE SetSum(_, _)
SetSum(S, w) ==
    IF S = {} THEN 0
    ELSE LET x == CHOOSE y \in S : TRUE
         IN  w[x] + SetSum(S \ {x}, w)

\* the price table of the rule-based strategy (10^-8 dollar per token) and
\* the tokens an entry counts for
PriceOf(model_name) == IF model_name = "gpt-4o" THEN 15 ELSE 0
CountedTokens(e) == IF e.v.tokens_used = <<>> THEN 0 ELSE e.v.tokens_used[1]

\* the OutcomeMap with the token count of the entry of key raised by d
MoreTokens(d, key, delta) ==
    [i \in 1..Len(d) |->
        IF d[i].k = key
        THEN [d[i] EXCEPT !.v.tokens_used = <<d[i].v.tokens_used[1] + delta>>]
        ELSE d[i]]

\* C11: under the rule-based strategy total_cost is the sum over the
\* successful agents of tokens_used x price[model_name] / 1,000,000, with
\* price 0 for a model outside the price table and 0 tokens for a missing
\* tokens_used; failed agents add nothing, and delta more tokens for one
\* agent change total_cost by exactly delta x price[model] / 1,000,000.
C11_CostAdditivity ==
    (pc = "done" /\ ~use_master) =>
        /\ comparison.total_cost =
              SetSum(SuccessEntries,
                     [e \in SuccessEntries |-> CountedTokens(e) * PriceOf(e.k)])
        /\ \A e \in SuccessEntries : \A delta \in {1, 1000} :
              e.v.tokens_used # <<>> =>
                  aggregate_rule_based(MoreTokens(responses, e.k, delta)).total_cost
                      = comparison.total_cost + delta * PriceOf(e.k)

C11_Witness ==
    /\ pc = "done"
    /\ ~use_master
    /\ FailureKeys # {}
    /\ \E e \in SuccessEntries : e.k = "gpt-4o" /\ e.v.tokens_used = <<1000>>
    /\ \E e \in SuccessEntries : e.k = "custom-model" /\ e.v.tokens_used = <<2000000>>
    /\ comparison.total_cost = 15000

\* C12: under the master strategy a reasoning call that fails ends aggregate
\* with that error: no ComparisonResult is returned, and no step out of the
\* reasoning call that has no response of the call ends in a result.
C12_SynthesisFailureIsFatal ==
    /\ [](raised = "Exception" =>
              /\ pc = "failed"
              /\ use_master
              /\ master_calls = 1
              /\ comparison = NoComparison)
    /\ [][(pc = "synthesizing" /\ synthesis_response' = None) =>
              /\ pc' = "failed"
              /\ raised' = "Exception"
              /\ comparison' = NoComparison]_vars

C12_Witness ==
    /\ pc = "failed"
    /\ raised = "Exception"
    /\ use_master
    /\ master_calls = 1
    /\ synthesis_response = None
    /\ SuccessKeys # {}
    /\ FailureKeys # {}

\* the names of the required fields, those that hold lists, and the default
\* of each
RequiredNames ==
    {"consensus_points", "disagreement_points", "knowledge_gaps",
     "synthesized_answer", "confidence_range", "confidence_reasoning",
     "verification_needed", "reasoning_trace"}
ListNames ==
    {"consensus_points", "disagreement_points", "knowledge_gaps",
     "verification_needed"}
DefaultOf(field) ==
    IF field \in ListNames THEN JList(<<>>)
    ELSE IF field = "confidence_range" THEN JStr(<<"medium">>)
    ELSE JStr(<<>>)

\* C13: for every synthesis text, _parse_synthesis does not raise and
\* returns a record that holds all eight required fields.
C13_ParseNeverRaises ==
    pc = "parse_done" =>
        /\ synthesis_parsed.ok
        /\ \A field \in RequiredNames : DictHas(synthesis_parsed.value, field)

\* the first n characters of a text
FirstChars(raw, n) == [i \in 1..(IF Len(raw) < n THEN Len(raw) ELSE n) |-> raw[i]]

\* the natural-language fallback record of a raw text
FallbackRecord(raw) ==
    << [k |-> "consensus_points", v |-> JList(<<>>)],
       [k |-> "disagreement_points", v |-> JList(<<>>)],
       [k |-> "knowledge_gaps", v |-> JList(<<>>)],
       [k |-> "synthesized_answer", v |-> JStr(FirstChars(raw, 1000))],
       [k |-> "confidence_range", v |-> JStr(<<"medium">>)],
       [k |-> "confidence_reasoning", v |-> JStr(<<"Based on natural language synthesis">>)],
       [k |-> "verification_needed", v |-> JList(<<>>)],
       [k |-> "reasoning_trace", v |-> JStr(FirstChars(raw, 500))] >>

\* C14: _parse_synthesis returns the natural-language fallback record of the
\* raw text (empty lists, the first 1000 characters as synthesized_answer,
\* the first 500 as reasoning_trace, confidence "medium") exactly when
\* neither the fenced block nor the whole text is JSON.
C14_FallbackExactlyWhenNoJson ==
    pc = "parse_done" =>
        LET text == synthesis_response.text
        IN  (synthesis_parsed = Returned(FallbackRecord(text.raw)))
                <=> (text.json.t = "invalid")

C14_Witness ==
    /\ pc = "parse_done"
    /\ synthesis_response.text.fenced
    /\ synthesis_response.text.json.t = "invalid"
    /\ Len(synthesis_response.text.raw) = 1001
    /\ synthesis_parsed.ok
    /\ Len(DictGet(synthesis_parsed.value, "synthesized_answer").val) = 1000
    /\ Len(DictGet(synthesis_parsed.value, "reasoning_trace").val) = 500

\* C15: validation of a parsed JSON object keeps every field that is
\* present, with its value and position, and appends exactly the absent
\* required fields with their defaults; an object with all required fields
\* comes back as it was.
C15_ValidationFrame ==
    (pc = "parse_done" /\ synthesis_response.text.json.t = "object") =>
        LET given == synthesis_response.text.json.val
            out == synthesis_parsed.value
        IN  /\ synthesis_parsed.ok
            /\ Len(out) >= Len(given)
            /\ SubSeq(out, 1, Len(given)) = given
            /\ Range(DictKeys(out)) = Range(DictKeys(given)) \cup RequiredNames
            /\ Len(out) = Cardinality(Range(DictKeys(out)))
            /\ \A field \in RequiredNames :
                  ~DictHas(given, field) => DictGet(out, field) = DefaultOf(field)
            /\ (RequiredNames \subseteq Range(DictKeys(given))) => out = given

C15_Witness ==
    /\ pc = "parse_done"
    /\ synthesis_response.text.fenced
    /\ synthesis_response.text.json.t = "object"
    /\ DictHas(synthesis_response.text.json.val, "notes")
    /\ DictGet(synthesis_parsed.value, "confidence_range") = JStr(<<"high">>)
    /\ DictGet(synthesis_parsed.value, "synthesized_answer") = JStr(<<>>)
    /\ DictGet(synthesis_parsed.value, "notes") = JStr(<<"extra">>)

\* C16: total_tokens is the sum of tokens_used over the successful agents
\* (a missing value counts 0), plus under the master strategy the tokens of
\* the reasoning call; total_cost under the master strategy is the worker
\* cost of the rule-based strategy plus prompt tokens x input price and
\* completion tokens x output price of the reasoning model.
C16_TokenAndCostTotals ==
    (pc = "done" /\ SuccessKeys # {}) =>
        LET worker_tokens ==
                SetSum(SuccessEntries, [e \in SuccessEntries |-> CountedTokens(e)])
            worker_cost ==
                SetSum(SuccessEntries,
                       [e \in SuccessEntries |-> CountedTokens(e) * PriceOf(e.k)])
        IN  IF ~use_master
            THEN comparison.total_tokens = worker_tokens
            ELSE LET usage == synthesis_response.usage
                 IN  IF usage = <<>>
                     THEN /\ comparison.total_tokens = worker_tokens
                          /\ comparison.total_cost = worker_cost
                     ELSE /\ comparison.total_tokens =
                                worker_tokens + usage[1].total_tokens
                          /\ comparison.total_cost =
                                worker_cost + usage[1].prompt_tokens * 250
                                            + usage[1].completion_tokens * 1000

C16_Witness ==
    /\ pc = "done"
    /\ use_master
    /\ SuccessKeys # {}
    /\ synthesis_response.usage = <<Usage(1000, 500)>>
    /\ \E e \in SuccessEntries : e.k = "gpt-4o" /\ e.v.tokens_used = <<1000>>
    /\ \E e \in SuccessEntries : e.v.tokens_used = <<>>
    /\ comparison.total_tokens = 2500
    /\ comparison.total_cost = 15000 + 250000 + 500000

\* C17: when the master strategy is selected and no API key is set, the
\* construction of the aggregator raises: no aggregator exists afterwards
\* and no ComparisonResult of another strategy is returned.
C17_MissingCredentialIsFatal ==
    (want_master /\ ~openai_key) =>
        /\ pc # "aggregating"
        /\ ~HasComparison

\* the fields that only the master strategy produces
MasterOnlyNames ==
    {"reasoning_trace", "knowledge_gaps", "verification_needed",
     "confidence_reasoning"}

\* C18: a ComparisonResult of the master strategy with a success carries
\* reasoning_trace, knowledge_gaps, verification_needed and
\* confidence_reasoning as parsed from the reasoning call, and a
\* ComparisonResult of the rule-based strategy carries none of them.
C18_MasterFieldsCarried ==
    /\ (pc = "done" /\ use_master /\ SuccessKeys # {}) =>
            \A field \in MasterOnlyNames :
                /\ field \in DOMAIN comparison
                /\ comparison[field] = DictGet(synthesis_parsed.value, field).val
    /\ (pc = "done" /\ ~use_master) =>
            \A field \in MasterOnlyNames : field \notin DOMAIN comparison

\* C19: for an OutcomeMap without a success the result that aggregate
\* returns is the one either strategy returns for that OutcomeMap: the two
\* agree on synthesized_answer, confidence_range, the counts, failed_agents
\* and the list fields.
C19_SameAllFailedResult ==
    (pc = "done" /\ Len(responses) > 0 /\ SuccessKeys = {}) =>
        LET rule_based == aggregate_rule_based(responses)
            master == master_failed_result(responses)
        IN  /\ comparison \in {rule_based, master}
            /\ rule_based.synthesized_answer = master.synthesized_answer
            /\ rule_based.confidence_range = master.confidence_range
            /\ rule_based.total_agents = master.total_agents
            /\ rule_based.successful_agents = master.successful_agents
            /\ rule_based.failed_agents = master.failed_agents
            /\ rule_based.responses = master.responses
            /\ rule_based.consensus_points = master.consensus_points
            /\ rule_based.disagreement_points = master.disagreement_points

\* the last agent of the list that bears the name
LastBearer(model_name) ==
    CHOOSE j \in 1..Len(agents) :
        /\ agents[j].model_name = model_name
        /\ \A other \in 1..Len(agents) :
              agents[other].model_name = model_name => other <= j

\* C20: whatever the order in which the agent tasks end, the OutcomeMap that
\* research_all returns has the names of the agents as keys, and each key
\* maps to the outcome of the agent of that name (the last one in the list),
\* never to the result of an agent of another name.
C20_OutcomeMapIsOrderIndependent ==
    pc = "returned" =>
        /\ Range(DictKeys(responses)) = {agents[j].model_name : j \in 1..Len(agents)}
        /\ \A i \in 1..Len(responses) :
              LET last == LastBearer(responses[i].k)
              IN  /\ responses[i].v =
                        (IF task[last] = "err" THEN None ELSE results[last])
                  /\ responses[i].v # None =>
                        responses[i].v.model_name = responses[i].k

C20_Witness ==
    /\ pc = "returned"
    /\ Len(agents) = 3
    /\ Len(responses) = 3
    /\ task = <<"ok", "err", "ok">>
    /\ responses[1].v # None
    /\ responses[2].v = None
    /\ responses[3].v # None
    /\ responses[1].v.answer # responses[3].v.answer

\* the successful entries of the OutcomeMap, in its order
SuccessSeq == SelectSeq(responses, LAMBDA e : e.v # None)

\* "name: level, name: level, ..." over the entries of d
RECURSIVE ListedConfidences(_)
ListedConfidences(d) ==
    IF Len(d) = 1 THEN <<d[1].k, ": ", d[1].v.confidence>>
    ELSE <<d[1].k, ": ", d[1].v.confidence, ", ">> \o ListedConfidences(Tail(d))

\* C21: under the rule-based strategy disagreement_points is empty with
\* fewer than two successes; otherwise it holds one entry listing every
\* successful agent's confidence iff the levels are not all the same,
\* followed by one entry with the shortest and longest answer lengths iff
\* longest > 1.5 x shortest, and nothing else.
C21_DisagreementPoints ==
    (pc = "done" /\ ~use_master) =>
        LET levels == {e.v.confidence : e \in SuccessEntries}
            lengths == {Len(e.v.answer) : e \in SuccessEntries}
            shortest == CHOOSE n \in lengths : \A m \in lengths : n <= m
            longest == CHOOSE n \in lengths : \A m \in lengths : n >= m
            by_confidence ==
                IF Cardinality(levels) > 1
                THEN << <<"Confidence levels vary (">>
                        \o ListedConfidences(SuccessSeq) \o <<")">> >>
                ELSE <<>>
            by_length ==
                IF 10 * longest > 15 * shortest
                THEN << <<"Response depth varies significantly (shortest: ",
                          ToString(shortest), " chars, longest: ",
                          ToString(longest), " chars)">> >>
                ELSE <<>>
        IN  IF Cardinality(SuccessKeys) < 2
            THEN comparison.disagreement_points = <<>>
            ELSE comparison.disagreement_points = by_confidence \o by_length

C21_Witness ==
    /\ pc = "done"
    /\ ~use_master
    /\ Cardinality(SuccessKeys) = 3
    /\ {Len(e.v.answer) : e \in SuccessEntries} = {10, 15, 16}
    /\ {e.v.confidence : e \in SuccessEntries} = {"low", "high"}
    /\ Len(comparison.disagreement_points) = 2

\* the key points of the successful agents, concatenated in OutcomeMap order
RECURSIVE Concatenated(_)
Concatenated(d) ==
    IF Len(d) = 0 THEN <<>> ELSE d[1].v.key_points \o Concatenated(Tail(d))

\* C22: under the rule-based strategy consensus_points has at most 5
\* entries and no duplicate, and is the start (the first 5 when more
\* qualify) of the points that occur at least twice in the concatenated
\* key-point lists of the successful agents, in order of first occurrence.
C22_ConsensusCapAndOrder ==
    (pc = "done" /\ ~use_master) =>
        LET all == Concatenated(SuccessSeq)
            FirstAt(p) == CHOOSE i \in 1..Len(all) :
                              all[i] = p /\ \A j \in 1..(i - 1) : all[j] # p
            qualifying ==
                IF Cardinality(SuccessKeys) < 2 THEN {}
                ELSE {p \in Range(all) :
                         Cardinality({i \in 1..Len(all) : all[i] = p}) >= 2}
            cp == comparison.consensus_points
        IN  /\ Len(cp) <= 5
            /\ Len(cp) = (IF Cardinality(qualifying) > 5 THEN 5
                          ELSE Cardinality(qualifying))
            /\ Range(cp) \subseteq qualifying
            /\ \A i \in 1..Len(cp) : \A j \in 1..Len(cp) :
                  i < j => FirstAt(cp[i]) < FirstAt(cp[j])
            /\ \A q \in qualifying \ Range(cp) : \A i \in 1..Len(cp) :
                  FirstAt(cp[i]) < FirstAt(q)

C22_Witness ==
    /\ pc = "done"
    /\ ~use_master
    /\ Cardinality(SuccessKeys) = 3
    /\ Cardinality(UNION {Range(e.v.key_points) : e \in SuccessEntries}) = 6
    /\ comparison.consensus_points =
          <<Point(1), Point(2), Point(3), Point(4), Point(5)>>

\* "name, name, ..." over the entries of d
RECURSIVE ListedNames(_)
ListedNames(d) ==
    IF Len(d) = 1 THEN <<d[1].k>>
    ELSE <<d[1].k, ", ">> \o ListedNames(Tail(d))

\* " i. point" for the points i..n of cp
RECURSIVE NumberedFrom(_, _, _)
NumberedFrom(cp, i, n) ==
    IF i > n THEN <<>>
    ELSE <<" ", ToString(i), ". ">> \o cp[i] \o NumberedFrom(cp, i + 1, n)

\* the closing sentence, which names every successful model
ClosingSentence ==
    <<"\nBased on ", ToString(Len(SuccessSeq)), " AI models (">>
    \o ListedNames(SuccessSeq)
    \o <<"), this represents a synthesized view of their findings.">>

\* the header followed by the first 3 consensus points, numbered
HeaderAndPoints ==
    LET cp == comparison.consensus_points
    IN  <<"Key consensus points:">>
        \o NumberedFrom(cp, 1, IF Len(cp) < 3 THEN Len(cp) ELSE 3)

\* C23: under the rule-based strategy with two or more successes,
\* synthesized_answer is the "Key consensus points:" header with the first 3
\* consensus points, numbered, when there is a consensus point, and in every
\* case the closing sentence that names every successful model; no agent's
\* answer is returned verbatim.
C23_SynthesisOfSeveral ==
    (pc = "done" /\ ~use_master /\ Cardinality(SuccessKeys) >= 2) =>
        /\ comparison.synthesized_answer =
              (IF Len(comparison.consensus_points) = 0 THEN ClosingSentence
               ELSE HeaderAndPoints \o <<" ">> \o ClosingSentence)
        /\ \A e \in SuccessEntries : comparison.synthesized_answer # e.v.answer

\* C23 as stated: the header is part of synthesized_answer whether or not
\* there is a consensus point.
C23_HeaderInEveryCase ==
    (pc = "done" /\ ~use_master /\ Cardinality(SuccessKeys) >= 2) =>
        /\ comparison.synthesized_answer =
              HeaderAndPoints \o <<" ">> \o ClosingSentence
        /\ \A e \in SuccessEntries : comparison.synthesized_answer # e.v.answer

C23_Witness ==
    /\ pc = "done"
    /\ ~use_master
    /\ Cardinality(SuccessKeys) = 3
    /\ Len(comparison.consensus_points) = 5
    /\ comparison.synthesized_answer[1] = "Key consensus points:"
    /\ Cardinality({i \in 1..Len(comparison.synthesized_answer) :
                         comparison.synthesized_answer[i] = ". "}) = 3

\* C24: one aggregate call makes exactly one reasoning call when the master
\* strategy is in use and the OutcomeMap has a success, and none when every
\* agent failed or the rule-based strategy is in use.
C24_OneReasoningCall ==
    /\ master_calls <= 1
    /\ pc \in {"synthesizing", "done", "failed"} =>
          master_calls = (IF use_master /\ SuccessKeys # {} THEN 1 ELSE 0)

C24_Witness ==
    /\ pc = "done"
    /\ use_master
    /\ SuccessKeys # {}
    /\ FailureKeys # {}
    /\ master_calls = 1

\* C25: within one research session the aggregator exists and the reasoning
\* call is made only when every agent task has ended and the OutcomeMap
\* holds a key for every agent name.
C25_AggregationAfterJoin ==
    (pc \in {"aggregating", "synthesizing"} \/ master_calls > 0 \/ HasComparison) =>
        /\ Len(agents) > 0
        /\ Len(task) = Len(agents)
        /\ \A i \in 1..Len(agents) : task[i] \in {"ok", "err"}
        /\ \A i \in 1..Len(agents) : results[i].tag # "Pending"
        /\ \A i \in 1..Len(agents) : DictHas(responses, agents[i].model_name)
        /\ \A i \in 1..Len(responses) : responses[i].v.tag # "Pending"

C25_Witness ==
    /\ pc = "synthesizing"
    /\ master_calls = 1
    /\ Len(agents) = 3
    /\ \E i \in 1..Len(agents) : task[i] = "ok"
    /\ \E i \in 1..Len(agents) : task[i] = "err"

PastGather == pc \notin {"start", "constructed", "gathering"}

\* the call of agent i has ended, or the council has no agent i
CallEnded(i) == i \in DOMAIN task => task[i] # "running"

\* C27: if the call of every agent eventually ends, research_all eventually
\* returns; and as long as the call of one agent has not ended research_all
\* has not returned, so a call that never ends keeps it from returning.
C27_ReturnsIffEveryCallEnds ==
    /\ (\A i \in 1..MaxAgents : <>[]CallEnded(i))
           => <>PastGather
    /\ [](\A i \in DOMAIN task : task[i] = "running" => pc = "gathering")

C27_Witness ==
    /\ pc = "returned"
    /\ Len(agents) = 3
    /\ \A i \in 1..3 : task[i] \in {"ok", "err"}

\* the outcome research_all records for the agent at position j
OutcomeOf(j) == IF task[j] = "err" THEN None ELSE results[j]

C29_RowCountsMatchComparison ==
    db_session.tag = "ResearchSession" =>
        /\ db_session.successful_agents = comparison.successful_agents
        /\ db_session.total_agents = comparison.total_agents
        /\ db_session.successful_agents >= 0

\* C30: after any interleaving of requests, the file_path of every session
\* row locates a file that holds the ComparisonResult of that same session:
\* no request records the file of another, none overwrites the file of
\* another
C30_PathLocatesOwnResult ==
    \A i \in 1..Len(research_sessions) :
        /\ DictHas(directory, research_sessions[i].file_path)
        /\ DictGet(directory, research_sessions[i].file_path).holder =
              research_sessions[i].id

====
